---- MODULE Spec2Model ----
(***************************************************************************)
(* Topic Monitor pipeline of mattermost-mcp: the MonitoringScheduler       *)
(* (src/src/monitor/scheduler.ts), the StateManager (persistence), the     *)
(* MessageAnalyzer (src/src/monitor/analyzer.ts) and the TopicMonitor      *)
(* orchestrator, as one state machine, plus two small specifications that  *)
(* exercise the pure classification and alert-composition functions.       *)
(***************************************************************************)
EXTENDS Integers, Sequences, FiniteSets, TLC

\* ------------------------------------------------------------------ bounds
\* Messages that can ever be posted to one channel.
MaxPosts == 2
\* Longest list of matching posts handed to sendNotification in SpecNotify.
MaxMatches == 7
\* Longest batch of posts handed to the classifier in SpecClassify.
MaxBatch == 2

\* --------------------------------------------------------- program constants
\* config.messageLimit and config.firstRunLimit (small stand-ins for 50 / 10).
messageLimit == 2
firstRunLimit == 1
\* config.processExistingOnFirstRun: the first-run policy is enabled.
processExistingOnFirstRun == TRUE
\* posts.slice(0, 5) / posts.length > 5 in sendNotification.
AlertListLimit == 5

Null == "null"

\* ------------------------------------------------------------------- text
\* A string is a sequence of one-character strings.
UpperChars == <<"A","B","C","D","E","F","G","H","I","J","K","L","M",
                "N","O","P","Q","R","S","T","U","V","W","X","Y","Z">>
LowerChars == <<"a","b","c","d","e","f","g","h","i","j","k","l","m",
                "n","o","p","q","r","s","t","u","v","w","x","y","z">>

UpperSet == {UpperChars[k] : k \in 1..26}
UpperIndex == [c \in UpperSet |-> CHOOSE k \in 1..26 : UpperChars[k] = c]

\* A letter A..Z becomes a..z; every other character stays.
toLowerCaseChar(c) == IF c \in UpperSet THEN LowerChars[UpperIndex[c]] ELSE c

toLowerCase(s) == [i \in 1..Len(s) |-> toLowerCaseChar(s[i])]

\* String.prototype.includes: needle occurs as a contiguous substring.
includes(hay, needle) ==
  \E i \in 0..(Len(hay) - Len(needle)) :
    \A j \in 1..Len(needle) : hay[i + j] = needle[j]

TopicTableTennis == <<"t","a","b","l","e"," ","t","e","n","n","i","s">>
TopicLunch == <<"L","u","n","c","h">>

TextButterfly == <<"j","u","s","t"," ","b","o","u","g","h","t"," ","a"," ","n","e","w"," ",
                   "b","u","t","t","e","r","f","l","y"," ","b","l","a","d","e">>
TextLunch == <<"l","e","t","'","s"," ","g","r","a","b"," ","l","u","n","c","h">>
TextDirect == <<"T","a","b","l","e"," ","T","e","n","n","i","s"," ","a","t"," ","5">>
TextBoth == <<"l","u","n","c","h"," ","t","h","e","n"," ","t","a","b","l","e"," ",
              "t","e","n","n","i","s">>
TextStandup == <<"s","t","a","n","d","u","p"," ","a","t"," ","9">>

\* ------------------------------------------------------------ configuration
\* config.channels and the workspace's channel list (name -> id).
ConfigChannels == <<"c1", "c2">>
ChannelIds == {"id1", "id2"}
ChannelIdOf(name) == IF name = "c1" THEN "id1" ELSE "id2"
ChannelNo(chId) == IF chId = "id1" THEN 1 ELSE 2

\* config.topics of the running monitor.
ConfigTopics == <<TopicTableTennis>>

\* Schedule expressions; cron.validate accepts the first two.
Exprs == {"*/5 * * * *", "0 * * * *", "every now and then"}
validate(e) == e \in {"*/5 * * * *", "0 * * * *"}

\* ------------------------------------------------------------------ messages
\* The k-th message of channel number c has id 10*c + k.
PostId(c, k) == 10 * c + k
AllPostIds == {PostId(c, k) : c \in 1..2, k \in 1..MaxPosts}
ChannelOfPost(id) == IF id \div 10 = 1 THEN "id1" ELSE "id2"

TextPool == <<TextDirect, TextLunch, TextButterfly>>
TextOf(id) == TextPool[(((id % 10) + (id \div 10)) % 3) + 1]
AuthorOf(id) == IF id % 2 = 1 THEN "u1" ELSE "u2"
PostOf(id) == [id |-> id, user_id |-> AuthorOf(id), message |-> TextOf(id)]

\* ------------------------------------------------------------- StateManager
DefaultState == [shape |-> TRUE, lastRun |-> "iso", processedPosts |-> <<>>]

\* loadState: the parsed file, or the default when it is absent or unparsable.
\* A parsable file that is not a MonitorState (the object {}) is returned as is.
loadState(d) ==
  CASE d.kind = "absent" -> DefaultState
    [] d.kind = "torn" -> DefaultState
    [] d.kind = "noshape" -> [shape |-> FALSE, lastRun |-> "undefined", processedPosts |-> <<>>]
    [] OTHER -> [shape |-> TRUE, lastRun |-> d.lastRun, processedPosts |-> d.processedPosts]

\* this.state.processedPosts[channelId] throws when processedPosts is undefined.
Throws(st) == ~st.shape

\* getProcessedPostIds: processedPosts[channelId] || []
getProcessedPostIds(st, chId) ==
  IF chId \in DOMAIN st.processedPosts THEN st.processedPosts[chId] ELSE <<>>

SeqToSet(s) == {s[i] : i \in 1..Len(s)}

\* isPostProcessed: (processedPosts[channelId] || []).includes(postId)
isPostProcessed(st, chId, postId) ==
  postId \in SeqToSet(getProcessedPostIds(st, chId))

\* markPostProcessed: create the channel's array if missing, push if not there.
markPostProcessed(st, chId, postId) ==
  LET cur == getProcessedPostIds(st, chId)
      new == IF postId \in SeqToSet(cur) THEN cur ELSE Append(cur, postId)
  IN [st EXCEPT !.processedPosts =
        [c \in (DOMAIN st.processedPosts) \cup {chId} |->
           IF c = chId THEN new ELSE st.processedPosts[c]]]

\* markPostsProcessed: markPostProcessed for each id in order.
RECURSIVE markPostsProcessed(_, _, _)
markPostsProcessed(st, chId, ids) ==
  IF ids = <<>> THEN st
  ELSE markPostsProcessed(markPostProcessed(st, chId, Head(ids)), chId, Tail(ids))

\* getLastRun: new Date(this.state.lastRun), a Date object (an invalid one when
\* lastRun is undefined).
getLastRun(st) == [type |-> "Date", valid |-> st.lastRun # "undefined"]

\* JavaScript truthiness: every object, a Date included, is truthy.
Truthy(v) == v.type \notin {"undefined", "null"}

\* The record saveState writes: the whole state with lastRun refreshed.
FileOf(st) == [kind |-> "record", lastRun |-> "iso", processedPosts |-> st.processedPosts]

\* A slip of saveState: a failed write drops the in-memory marks.
saveState_ForgetsOnFailure(st, d, outcome) ==
  [state |-> IF outcome = "ok" THEN [st EXCEPT !.lastRun = "iso"]
             ELSE [st EXCEPT !.lastRun = "iso", !.processedPosts = <<>>],
   disk |-> CASE outcome = "ok" -> FileOf(st)
              [] outcome = "torn" -> [kind |-> "torn"]
              [] OTHER -> d]

\* saveState under an outcome of the write: "ok"; "fail" (mkdir or open throws,
\* file untouched); "torn" (writeFileSync throws after truncating the file).
\* The exception is caught and logged in every case.
saveState(st, d, outcome) ==
  [state |-> [st EXCEPT !.lastRun = "iso"],
   disk |-> CASE outcome = "ok" -> FileOf(st)
              [] outcome = "torn" -> [kind |-> "torn"]
              [] OTHER -> d]

\* --------------------------------------------------------- MessageAnalyzer
\* The analyzer the monitor constructs gets no llmConfig (4 arguments).
MonitorLlmConfig == Null

\* Index of the first topic whose lower-cased label the lower-cased message
\* contains, 0 when there is none (the inner loop of fallbackAnalysis).
RECURSIVE FirstTopicFrom(_, _, _)
FirstTopicFrom(message, topics, t) ==
  IF t > Len(topics) THEN 0
  ELSE IF includes(toLowerCase(message), toLowerCase(topics[t])) THEN t
  ELSE FirstTopicFrom(message, topics, t + 1)

AppendNew(s, x) == IF x \in SeqToSet(s) THEN s ELSE Append(s, x)

RECURSIVE FallbackFrom(_, _, _, _)
FallbackFrom(posts, topics, i, acc) ==
  IF i > Len(posts) THEN acc
  ELSE LET t == FirstTopicFrom(posts[i].message, topics, 1)
       IN FallbackFrom(posts, topics, i + 1,
            IF t = 0 THEN acc
            ELSE [relevantPosts |-> Append(acc.relevantPosts, posts[i]),
                  relevantTopics |-> AppendNew(acc.relevantTopics, topics[t])])

\* fallbackAnalysis: a post is relevant when its message contains a topic
\* label (case-insensitively); the first such topic is recorded, then break.
fallbackAnalysis(posts, topics) ==
  FallbackFrom(posts, topics, 1, [relevantPosts |-> <<>>, relevantTopics |-> <<>>])

\* A slip of the manual extraction: ids without a topic array are dropped.
primaryAnalysis_NoTieBreak(posts, topics, resp) ==
  LET T == 1..Len(topics)
      direct == {t \in T : resp.topicIds[t] # <<>>}
      relevantPostIds == UNION {SeqToSet(resp.topicIds[t]) : t \in direct}
  IN [relevantPosts |-> SelectSeq(posts, LAMBDA p : p.id \in relevantPostIds),
      relevantTopics |-> [k \in 1..Cardinality(direct) |->
          topics[CHOOSE t \in direct : Cardinality({u \in direct : u < t}) = k - 1]]]

\* A slip of the result assembly: every id the reply names becomes a matching
\* message, whether or not the batch holds it.
primaryAnalysis_NamedIdsAsPosts(posts, topics, resp) ==
  LET T == 1..Len(topics)
      direct == {t \in T : resp.topicIds[t] # <<>>}
      keys == IF direct # {} THEN direct ELSE IF resp.allPostIds # <<>> THEN T ELSE {}
  IN [relevantPosts |-> IF keys = {} THEN <<>>
                        ELSE [k \in 1..Len(resp.allPostIds) |->
                                [id |-> resp.allPostIds[k], user_id |-> "u1",
                                 message |-> <<>>]],
      relevantTopics |-> [k \in 1..Cardinality(keys) |->
          topics[CHOOSE t \in keys : Cardinality({u \in keys : u < t}) = k - 1]]]

\* The manual extraction of analyzePostsWithLLM on a backend reply. A reply is
\* abstracted to what the regular expressions read from it: allPostIds, every
\* quoted id in the text, and topicIds[t], the ids inside the array that
\* follows the label of topic t (empty when there is no such array).
primaryAnalysis(posts, topics, resp) ==
  LET T == 1..Len(topics)
      direct == {t \in T : resp.topicIds[t] # <<>>}
      found == SelectSeq([i \in 1..Len(posts) |-> posts[i].id],
                         LAMBDA id : id \in SeqToSet(resp.allPostIds))
      tieBreak == direct = {} /\ resp.allPostIds # <<>> /\ found # <<>>
      keys == IF direct # {} THEN direct ELSE IF tieBreak THEN T ELSE {}
      idsOf(t) == IF direct # {} THEN SeqToSet(resp.topicIds[t]) ELSE SeqToSet(found)
      relevantPostIds == UNION {idsOf(t) : t \in keys}
  IN [relevantPosts |-> SelectSeq(posts, LAMBDA p : p.id \in relevantPostIds),
      relevantTopics |-> [k \in 1..Cardinality(keys) |->
          topics[CHOOSE t \in keys : Cardinality({u \in keys : u < t}) = k - 1]]]

\* The backend call threw: there is no reply to read.
NoResp == [kind |-> "error", allPostIds |-> <<>>, topicIds |-> <<>>]

\* A slip of analyzePostsWithLLM: the catch returns an empty analysis.
analyzePostsWithLLM_NoFallbackOnError(posts, topics, llm, resp) ==
  IF llm = Null \/ posts = <<>> THEN fallbackAnalysis(posts, topics)
  ELSE IF resp.kind = "error" THEN [relevantPosts |-> <<>>, relevantTopics |-> <<>>]
  ELSE primaryAnalysis(posts, topics, resp)

\* analyzePostsWithLLM: the fallback when no llmConfig was given or the batch
\* is empty, and when the backend call throws; else the manual extraction.
analyzePostsWithLLM(posts, topics, llm, resp) ==
  IF llm = Null \/ posts = <<>> THEN fallbackAnalysis(posts, topics)
  ELSE IF resp.kind = "error" THEN fallbackAnalysis(posts, topics)
  ELSE primaryAnalysis(posts, topics, resp)

\* enrichPostsWithUserInfo: each post gets user_info from the profile of its
\* author; a failed lookup is caught and the post stays without it.
enrichPostsWithUserInfo(posts, failing) ==
  [i \in 1..Len(posts) |->
     [id |-> posts[i].id, user_id |-> posts[i].user_id, message |-> posts[i].message,
      user_info |-> IF posts[i].user_id \in failing THEN "undefined" ELSE "profile"]]

PostIdsOf(posts) == [i \in 1..Len(posts) |-> posts[i].id]

\* A slip of analyzeChannel: the posts are classified and saved but not marked.
classifyMarkSave_NoMark(st, d, chId, chName, unprocessed, topics, failing, llm, resp, saveOut) ==
  LET enriched == enrichPostsWithUserInfo(unprocessed, failing)
      analysis == analyzePostsWithLLM(enriched, topics, llm, resp)
      saved == saveState(st, d, saveOut)
  IN [state |-> saved.state, disk |-> saved.disk,
      result |-> IF analysis.relevantPosts = <<>> THEN <<>>
                 ELSE <<[channelId |-> chId, channelName |-> chName,
                         posts |-> analysis.relevantPosts,
                         relevantTopics |-> analysis.relevantTopics]>>]

\* A slip of analyzeChannel: only the relevant posts are marked processed.
classifyMarkSave_MarkRelevantOnly(st, d, chId, chName, unprocessed, topics, failing, llm, resp, saveOut) ==
  LET enriched == enrichPostsWithUserInfo(unprocessed, failing)
      analysis == analyzePostsWithLLM(enriched, topics, llm, resp)
      marked == markPostsProcessed(st, chId, PostIdsOf(analysis.relevantPosts))
      saved == saveState(marked, d, saveOut)
  IN [state |-> saved.state, disk |-> saved.disk,
      result |-> IF analysis.relevantPosts = <<>> THEN <<>>
                 ELSE <<[channelId |-> chId, channelName |-> chName,
                         posts |-> analysis.relevantPosts,
                         relevantTopics |-> analysis.relevantTopics]>>]

\* analyzeChannel from the enrichment on: enrich, classify, mark every
\* unprocessed post, saveState, and return the result (none without relevant
\* posts).
classifyMarkSave(st, d, chId, chName, unprocessed, topics, failing, llm, resp, saveOut) ==
  LET enriched == enrichPostsWithUserInfo(unprocessed, failing)
      analysis == analyzePostsWithLLM(enriched, topics, llm, resp)
      marked == markPostsProcessed(st, chId, PostIdsOf(unprocessed))
      saved == saveState(marked, d, saveOut)
  IN [state |-> saved.state, disk |-> saved.disk,
      result |-> IF analysis.relevantPosts = <<>> THEN <<>>
                 ELSE <<[channelId |-> chId, channelName |-> chName,
                         posts |-> analysis.relevantPosts,
                         relevantTopics |-> analysis.relevantTopics]>>]

\* ------------------------------------------------------ MonitoringScheduler
\* A scheduler is [schedule, task, armed]: the stored expression, this.task
\* (Null or the expression the task was created with) and the cron triggers
\* that are still armed.

\* A slip of start: the expression is not validated.
start_NoValidate(s) ==
  IF s.task # Null THEN [s |-> s, ret |-> "false"]
  ELSE [s |-> [s EXCEPT !.task = s.schedule, !.armed = @ \cup {s.schedule}],
        ret |-> "true"]

start(s) ==
  IF s.task # Null THEN [s |-> s, ret |-> "false"]
  ELSE IF ~validate(s.schedule) THEN [s |-> s, ret |-> "false"]
  ELSE [s |-> [s EXCEPT !.task = s.schedule, !.armed = @ \cup {s.schedule}],
        ret |-> "true"]

\* The outcomes of this.task.stop(): it returns, or it throws with the trigger
\* still armed, or it throws after the trigger was disarmed.
StopOutcomes == {"ok", "throws", "throwsDisarmed"}

\* A slip of stop: this.task is cleared without stopping the trigger.
stop_KeepsTrigger(s, out) ==
  IF s.task = Null THEN [s |-> s, ret |-> "false"]
  ELSE IF out = "ok" THEN [s |-> [s EXCEPT !.task = Null], ret |-> "true"]
       ELSE IF out = "throws" THEN [s |-> s, ret |-> "false"]
       ELSE [s |-> [s EXCEPT !.armed = @ \ {s.task}], ret |-> "false"]

\* stop: a throw of task.stop() is caught, this.task is kept and false returned.
stop(s, out) ==
  IF s.task = Null THEN [s |-> s, ret |-> "false"]
  ELSE IF out = "ok"
       THEN [s |-> [s EXCEPT !.task = Null, !.armed = @ \ {s.task}], ret |-> "true"]
       ELSE IF out = "throws" THEN [s |-> s, ret |-> "false"]
       ELSE [s |-> [s EXCEPT !.armed = @ \ {s.task}], ret |-> "false"]

\* A slip of updateSchedule: the expression is stored before it is validated.
updateSchedule_StoreBeforeValidate(s, e, out) ==
  LET s1 == [s EXCEPT !.schedule = e]
  IN IF ~validate(e) THEN [s |-> s1, ret |-> "false"]
     ELSE IF s1.task # Null THEN start(stop(s1, out).s) ELSE [s |-> s1, ret |-> "true"]

\* updateSchedule: an invalid expression is rejected before anything is
\* touched; a valid one is stored and a running scheduler is restarted with it.
updateSchedule(s, e, out) ==
  IF ~validate(e) THEN [s |-> s, ret |-> "false"]
  ELSE LET s1 == [s EXCEPT !.schedule = e]
       IN IF s1.task # Null THEN start(stop(s1, out).s) ELSE [s |-> s1, ret |-> "true"]

\* A slip of the tick handler: the in-flight flag is not consulted.
TickInvokes_NoGuard(flag) == TRUE

\* The tick handler invokes the callback only when the in-flight flag is clear.
TickInvokes(flag) == ~flag

\* A slip of the handlers: no finally block, the flag keeps its value.
finallyFlag_Missing(flag) == flag

\* finally { this.isRunning = false } of the tick handler and of runNow.
finallyFlag(flag) == FALSE

\* catch (error) { console.error(...) } of the tick handler and of runNow: the
\* callback's exception is logged, not rethrown.
handlerCatch(error) == "caught"

\* A slip of runNow: the in-flight flag is not consulted.
RunNowInvokes_NoGuard(flag) == TRUE

\* runNow invokes the callback only when the in-flight flag is clear.
RunNowInvokes(flag) == ~flag

\* ------------------------------------------------------------ TopicMonitor
\* What the profile lookups of sendNotification give: the username, or "user"
\* / the raw user_id when the lookup failed.
usernameOf(profileOut) == IF profileOut = "ok" THEN "name" ELSE "user"
authorOf(userId, failing) == IF userId \in failing THEN userId ELSE <<"name of", userId>>

\* A slip of the alert: the suffix is appended from 5 matches on.
composeAlert_SuffixAtLimit(result, username, failing) ==
  LET n == Len(result.posts)
      shown == SubSeq(result.posts, 1, IF n < AlertListLimit THEN n ELSE AlertListLimit)
  IN [mention |-> username,
      channelName |-> result.channelName,
      found |-> n,
      topics |-> result.relevantTopics,
      lines |-> [i \in 1..Len(shown) |->
                   [id |-> shown[i].id,
                    author |-> authorOf(shown[i].user_id, failing),
                    text |-> shown[i].message]],
      more |-> IF n >= AlertListLimit THEN n - AlertListLimit + 1 ELSE 0]

\* The alert sendNotification composes for a result: the header (recipient,
\* channel, posts.length, topics), one line per post of posts.slice(0, 5)
\* and the "... and N more" suffix (more = 0: no suffix).
composeAlert(result, username, failing) ==
  LET n == Len(result.posts)
      shown == SubSeq(result.posts, 1, IF n < AlertListLimit THEN n ELSE AlertListLimit)
  IN [mention |-> username,
      channelName |-> result.channelName,
      found |-> n,
      topics |-> result.relevantTopics,
      lines |-> [i \in 1..Len(shown) |->
                   [id |-> shown[i].id,
                    author |-> authorOf(shown[i].user_id, failing),
                    text |-> shown[i].message]],
      more |-> IF n > AlertListLimit THEN n - AlertListLimit ELSE 0]

\* A slip of sendNotification: a failed delivery takes the marks of the
\* alert's posts back, so that a later cycle tries again.
afterDelivery_RevertOnFailure(st, result, postOut) ==
  IF postOut = "ok" THEN st
  ELSE [st EXCEPT !.processedPosts =
          [c \in DOMAIN st.processedPosts |->
             IF c = result.channelId
             THEN SelectSeq(st.processedPosts[c],
                            LAMBDA id : \A k \in 1..Len(result.posts) : result.posts[k].id # id)
             ELSE st.processedPosts[c]]]

\* The StateManager after sendNotification: neither the success path nor the
\* catch of a failed createPost touches it.
afterDelivery(st, result, postOut) == st

\* sendNotification: nothing without a cached target; else the alert is
\* composed and posted to dmChannelId, a failure of createPost being caught.
\* The result is the sequence of posts made (none or one).
sendNotification(dm, user, result, profileOut, failing, postOut) ==
  IF dm = Null \/ user = Null THEN <<>>
  ELSE IF postOut # "ok" THEN <<>>
  ELSE <<[to |-> dm, message |-> composeAlert(result, usernameOf(profileOut), failing)]>>

\* ------------------------------------------------------------------- state
VARIABLES
  config,          \* [schedule]: the MonitoringConfig of this installation
  sched,           \* MonitoringScheduler: [schedule, task, armed]
  isRunning,       \* MonitoringScheduler.isRunning, the in-flight flag
  cycles,          \* the callback invocations in flight, each with its position
  state,           \* StateManager.state (in memory)
  disk,            \* the state file
  sysadminUserId,  \* TopicMonitor.sysadminUserId
  dmChannelId,     \* TopicMonitor.dmChannelId
  nposts,          \* workspace: number of messages in each channel
  ret,             \* the last operation and what it returned
  hadState,        \* history: a state file existed when this process loaded it
  cycleNo,         \* history: callback invocations of this process (capped at 2)
  considered,      \* history: ids that were candidates in this process
  durable,         \* history: ids that were in the file after a successful save
  outbox,          \* history: alerts posted by this process
  cl,              \* harness of SpecClassify
  nt,              \* harness of SpecNotify
  boot,            \* harness of SpecStartup
  tool             \* the mattermost_run_monitoring call under way and its response

mainVars == <<config, sched, isRunning, cycles, state, disk, sysadminUserId,
              dmChannelId, nposts, ret, hadState, cycleNo, considered,
              durable, outbox>>
vars == <<config, sched, isRunning, cycles, state, disk, sysadminUserId,
          dmChannelId, nposts, ret, hadState, cycleNo, considered,
          durable, outbox, cl, nt, boot, tool>>

\* No run-monitoring call has been made.
ToolIdle == [phase |-> "idle"]

ClIdle == [phase |-> "idle"]
NtIdle == [phase |-> "idle"]
BootIdle == [phase |-> "idle"]

\* The messages of a channel, oldest first, and the `limit` most recent ones.
ChannelPosts(chId) == [k \in 1..nposts[chId] |-> PostId(ChannelNo(chId), k)]
getPostsForChannel(chId, limit) ==
  LET all == ChannelPosts(chId)
      n == Len(all)
  IN SubSeq(all, IF n > limit THEN n - limit + 1 ELSE 1, n)

IdsOnFile(d) ==
  IF d.kind = "record"
  THEN UNION {SeqToSet(d.processedPosts[c]) : c \in DOMAIN d.processedPosts}
  ELSE {}

\* The state right after construction of a process that finds file d.
Constructed(d) ==
  /\ sched' = [schedule |-> config.schedule, task |-> Null, armed |-> {}]
  /\ isRunning' = FALSE
  /\ cycles' = <<>>
  /\ state' = loadState(d)
  /\ sysadminUserId' = Null
  /\ dmChannelId' = Null
  /\ hadState' = (d.kind # "absent")
  /\ cycleNo' = 0
  /\ considered' = {}
  /\ outbox' = {}
  /\ tool' = ToolIdle

InitProcess ==
  /\ tool = ToolIdle
  /\ sched = [schedule |-> config.schedule, task |-> Null, armed |-> {}]
  /\ isRunning = FALSE
  /\ cycles = <<>>
  /\ state = loadState(disk)
  /\ sysadminUserId = Null
  /\ dmChannelId = Null
  /\ nposts = [c \in ChannelIds |-> 0]
  /\ ret = [op |-> "restart", val |-> "none"]
  /\ hadState = (disk.kind # "absent")
  /\ cycleNo = 0
  /\ considered = {}
  /\ durable = {}
  /\ outbox = {}

\* The monitor of an installation with a valid schedule, started on no state
\* file or on a file that parses but is no MonitorState.
Init ==
  /\ config = [schedule |-> "*/5 * * * *"]
  /\ disk \in {[kind |-> "absent"], [kind |-> "noshape"]}
  /\ InitProcess
  /\ boot = BootIdle
  /\ cl = ClIdle
  /\ nt = NtIdle

\* The scheduler of an installation with a valid or an invalid schedule.
InitSched ==
  /\ config \in {[schedule |-> "*/5 * * * *"], [schedule |-> "every now and then"]}
  /\ disk = [kind |-> "absent"]
  /\ InitProcess
  /\ boot = BootIdle
  /\ cl = ClIdle
  /\ nt = NtIdle

\* --------------------------------------------------------------- one cycle
\* runMonitoring: isFirstRun = !this.stateManager.getLastRun()
isFirstRun(st) == ~Truthy(getLastRun(st))

\* analyzeChannel: limit = firstRun && firstRunLimit ? firstRunLimit : messageLimit
fetchLimit(firstRun, frl) == IF firstRun /\ frl # 0 THEN frl ELSE messageLimit

\* The callback runs synchronously up to its first await, getChannels().
NewCycle ==
  [no |-> IF cycleNo = 0 THEN 1 ELSE 2, pc |-> "getChannels", ch |-> 1,
   firstRun |-> isFirstRun(state), limit |-> 0, cands |-> <<>>,
   results |-> <<>>, n |-> 0]

Done == [pc |-> "done"]

\* The notification loop from result n on: sendNotification returns at once
\* when no target is cached, else it runs to the await of its lookups/createPost.
toNotify(c, n) ==
  IF n > Len(c.results) \/ dmChannelId = Null \/ sysadminUserId = Null
  THEN Done
  ELSE [c EXCEPT !.pc = "notify", !.n = n, !.cands = <<>>, !.limit = 0]

\* A slip of runMonitoring: a channel's result is notified before the next
\* channel is analysed.
advance_NotifyAtOnce(c, add) ==
  LET c1 == [c EXCEPT !.results = @ \o add]
  IN IF add # <<>> THEN toNotify(c1, Len(c1.results))
     ELSE IF c.ch < Len(ConfigChannels)
     THEN [c1 EXCEPT !.pc = "getChannels", !.ch = @ + 1, !.cands = <<>>, !.limit = 0]
     ELSE toNotify(c1, 1)

\* A slip of runMonitoring: a channel without a result ends the channel loop.
advance_StopOnNull(c, add) ==
  LET c1 == [c EXCEPT !.results = @ \o add]
  IN IF c.ch < Len(ConfigChannels) /\ add # <<>>
     THEN [c1 EXCEPT !.pc = "getChannels", !.ch = @ + 1, !.cands = <<>>, !.limit = 0]
     ELSE toNotify(c1, 1)

\* analyzeChannel returned (add: <<>> for null, <<result>> otherwise): the next
\* channel's getChannels(), or the notification loop after the last channel.
advance(c, add) ==
  LET c1 == [c EXCEPT !.results = @ \o add]
  IN IF c.ch < Len(ConfigChannels)
     THEN [c1 EXCEPT !.pc = "getChannels", !.ch = @ + 1, !.cands = <<>>, !.limit = 0]
     ELSE toNotify(c1, 1)

RemoveAt(s, i) == SubSeq(s, 1, i - 1) \o SubSeq(s, i + 1, Len(s))

\* The instance registered by setTopicMonitorInstance (index.ts registers it
\* whenever monitoring is configured).
TopicMonitorInstance == "monitor"

\* handleRunMonitoring once `await topicMonitorInstance.runNow()` has settled:
\* runNow catches whatever the callback throws and returns nothing, so the
\* success response is built whatever runNow did (ran: "skipped" / "invoked")
\* and however the callback ended ("returned" / "threw").
handleRunMonitoring(instance, ran, ended) ==
  IF instance = Null
  THEN [isError |-> TRUE, success |-> FALSE, text |-> "Monitoring is not enabled or initialized"]
  ELSE [isError |-> FALSE, success |-> TRUE,
        text |-> "Monitoring process completed successfully"]

\* runNow() of a waiting run-monitoring call settles: the handler responds.
toolSettle(t, ended) ==
  IF t.phase = "waiting"
  THEN [phase |-> "responded", ran |-> t.ran, ended |-> ended,
        resp |-> handleRunMonitoring(TopicMonitorInstance, t.ran, ended)]
  ELSE t

\* Position i continues as c1; when the callback is over (ended: "returned" or
\* "threw"), the finally block of the tick handler / runNow clears the
\* in-flight flag and the promise of runNow settles.
ContinueAs(i, c1, ended) ==
  /\ cycles' = IF c1.pc = "done" THEN RemoveAt(cycles, i) ELSE [cycles EXCEPT ![i] = c1]
  /\ isRunning' = IF c1.pc = "done" THEN finallyFlag(isRunning) ELSE isRunning
  /\ tool' = IF c1.pc = "done" THEN toolSettle(tool, ended) ELSE tool

Continue(i, c1) == ContinueAs(i, c1, "returned")

\* The callback rejects at the await it is waiting on: the catch of the tick
\* handler / runNow logs the error and the finally clears the in-flight flag;
\* the handler's own promise resolves.
CallbackThrows(i) ==
  /\ i \in DOMAIN cycles
  /\ ContinueAs(i, Done, "threw")
  /\ ret' = [op |-> "callback", val |-> handlerCatch("error")]
  /\ UNCHANGED <<config, sched, state, disk, sysadminUserId, dmChannelId, nposts,
                 hadState, cycleNo, considered, durable, outbox, cl, nt, boot>>

Invoke ==
  /\ isRunning' = TRUE
  /\ cycles' = Append(cycles, NewCycle)
  /\ cycleNo' = IF cycleNo < 2 THEN cycleNo + 1 ELSE 2

\* A tick of an armed trigger: the handler of cron.schedule in start().
Tick ==
  /\ sched.armed # {}
  /\ IF TickInvokes(isRunning)
     THEN Invoke /\ ret' = [op |-> "tick", val |-> "invoked"]
     ELSE /\ ret' = [op |-> "tick", val |-> "skipped"]
          /\ UNCHANGED <<isRunning, cycles, cycleNo>>
  /\ UNCHANGED <<config, sched, state, disk, sysadminUserId, dmChannelId, nposts,
                 hadState, considered, durable, outbox, cl, nt, boot, tool>>

\* TopicMonitor.runNow -> MonitoringScheduler.runNow
RunNow ==
  /\ IF RunNowInvokes(isRunning)
     THEN Invoke /\ ret' = [op |-> "runNow", val |-> "invoked"]
     ELSE /\ ret' = [op |-> "runNow", val |-> "skipped"]
          /\ UNCHANGED <<isRunning, cycles, cycleNo>>
  /\ UNCHANGED <<config, sched, state, disk, sysadminUserId, dmChannelId, nposts,
                 hadState, considered, durable, outbox, cl, nt, boot, tool>>

\* The mattermost_run_monitoring tool: handleRunMonitoring awaits runNow(). A
\* skipped runNow() settles at once and the handler responds; an invoked one
\* settles when the callback is over.
ToolRunMonitoring ==
  /\ tool.phase # "waiting"
  /\ IF RunNowInvokes(isRunning)
     THEN /\ Invoke
          /\ tool' = [phase |-> "waiting", ran |-> "invoked"]
          /\ ret' = [op |-> "runNow", val |-> "invoked"]
     ELSE /\ tool' = [phase |-> "responded", ran |-> "skipped", ended |-> "none",
                      resp |-> handleRunMonitoring(TopicMonitorInstance, "skipped", "none")]
          /\ ret' = [op |-> "runNow", val |-> "skipped"]
          /\ UNCHANGED <<isRunning, cycles, cycleNo>>
  /\ UNCHANGED <<config, sched, state, disk, sysadminUserId, dmChannelId, nposts,
                 hadState, considered, durable, outbox, cl, nt, boot>>

\* analyzeChannel resumes after getChannels(): the call failed (caught, null),
\* or the reply has no channel of the configured name (null), or the channel
\* is found and getPostsForChannel(channel.id, limit) is awaited.
GetChannelsDone(i, out) ==
  /\ cycles[i].pc = "getChannels"
  /\ LET c == cycles[i]
     IN IF out \in {"error", "notFound"}
        THEN Continue(i, advance(c, <<>>))
        ELSE Continue(i, [c EXCEPT !.pc = "getPosts",
                                   !.limit = fetchLimit(c.firstRun, firstRunLimit)])
  /\ ret' = [op |-> "none", val |-> "none"]
  /\ UNCHANGED <<config, sched, state, disk, sysadminUserId, dmChannelId, nposts,
                 hadState, cycleNo, considered, durable,
                 outbox, cl, nt, boot>>

\* A slip of the filter: the processed list is not consulted.
unprocessedPosts_NoFilter(st, chId, fetched) == fetched

\* The posts of the reply that are not in the channel's processed list.
unprocessedPosts(st, chId, fetched) ==
  SelectSeq(fetched, LAMBDA id : id \notin SeqToSet(getProcessedPostIds(st, chId)))

\* analyzeChannel resumes after getPostsForChannel(): the call failed, or the
\* processed list cannot be read (both caught, null), or there is nothing new
\* (null), or the candidates go to enrichPostsWithUserInfo.
GetPostsDone(i, out) ==
  /\ cycles[i].pc = "getPosts"
  /\ LET c == cycles[i]
         chId == ChannelIdOf(ConfigChannels[c.ch])
         cands == IF out = "error" \/ Throws(state) THEN <<>>
                  ELSE unprocessedPosts(state, chId, getPostsForChannel(chId, c.limit))
         S == SeqToSet(cands)
     IN /\ IF cands = <<>>
           THEN Continue(i, advance(c, <<>>))
           ELSE Continue(i, [c EXCEPT !.pc = "enrich", !.cands = cands])
        /\ considered' = considered \cup S
  /\ ret' = [op |-> "none", val |-> "none"]
  /\ UNCHANGED <<config, sched, state, disk, sysadminUserId, dmChannelId, nposts,
                 hadState, cycleNo, durable, outbox, cl, nt, boot>>

\* analyzeChannel resumes after the lookups of enrichPostsWithUserInfo (their
\* failures are caught per post): classify the batch, mark every candidate
\* processed, saveState, and return the result (null without relevant posts).
EnrichDone(i, saveOut) ==
  /\ cycles[i].pc = "enrich"
  /\ LET c == cycles[i]
         chName == ConfigChannels[c.ch]
         chId == ChannelIdOf(chName)
         posts == [k \in 1..Len(c.cands) |-> PostOf(c.cands[k])]
         saved == classifyMarkSave(state, disk, chId, chName, posts, ConfigTopics, {},
                                   MonitorLlmConfig, NoResp, saveOut)
     IN /\ state' = saved.state
        /\ disk' = saved.disk
        /\ durable' = IF saveOut = "ok" THEN durable \cup IdsOnFile(saved.disk) ELSE durable
        /\ Continue(i, advance(c, saved.result))
  /\ ret' = [op |-> "none", val |-> "none"]
  /\ UNCHANGED <<config, sched, sysadminUserId, dmChannelId, nposts, hadState, cycleNo,
                 considered, outbox, cl, nt, boot>>

\* sendNotification resumes after createPost(): posted, or the failure is caught.
NotifyDone(i, out) ==
  /\ cycles[i].pc = "notify"
  /\ LET c == cycles[i]
         sent == sendNotification(dmChannelId, sysadminUserId, c.results[c.n],
                                  "ok", {}, out)
     IN /\ outbox' = outbox \cup SeqToSet(sent)
        /\ state' = afterDelivery(state, c.results[c.n], out)
        /\ Continue(i, toNotify(c, c.n + 1))
  /\ ret' = [op |-> "createPost", val |-> out]
  /\ UNCHANGED <<config, sched, disk, sysadminUserId, dmChannelId, nposts,
                 hadState, cycleNo, considered, durable, cl, nt, boot>>

\* -------------------------------------------------------------- operations
SchedStart ==
  /\ sched' = start(sched).s
  /\ ret' = [op |-> "start", val |-> start(sched).ret]
  /\ UNCHANGED <<config, isRunning, cycles, state, disk, sysadminUserId, dmChannelId,
                 nposts, hadState, cycleNo, considered, durable, outbox, cl, nt, boot, tool>>

SchedStop(out) ==
  /\ sched' = stop(sched, out).s
  /\ ret' = [op |-> "stop", val |-> stop(sched, out).ret]
  /\ UNCHANGED <<config, isRunning, cycles, state, disk, sysadminUserId, dmChannelId,
                 nposts, hadState, cycleNo, considered, durable, outbox, cl, nt, boot, tool>>

UpdateSchedule(e, out) ==
  /\ sched' = updateSchedule(sched, e, out).s
  /\ ret' = [op |-> "updateSchedule", val |-> updateSchedule(sched, e, out).ret, arg |-> e]
  /\ UNCHANGED <<config, isRunning, cycles, state, disk, sysadminUserId, dmChannelId,
                 nposts, hadState, cycleNo, considered, durable, outbox, cl, nt, boot, tool>>

\* TopicMonitor.start: findSysadminUser, createDmChannel, scheduler.start();
\* a throw of either lookup is caught and start returns false.
MonitorStart(out) ==
  /\ sysadminUserId' = IF out = "noUsers" THEN sysadminUserId ELSE "admin"
  /\ dmChannelId' = IF out = "ok" THEN "dm" ELSE dmChannelId
  /\ sched' = IF out = "ok" THEN start(sched).s ELSE sched
  /\ ret' = [op |-> "monitorStart", val |-> IF out = "ok" THEN start(sched).ret ELSE "false"]
  /\ UNCHANGED <<config, isRunning, cycles, state, disk, nposts, hadState, cycleNo,
                 considered, durable, outbox, cl, nt, boot, tool>>

\* ------------------------------------------------------------- environment
NewPost(chId) ==
  /\ nposts[chId] < MaxPosts
  /\ nposts' = [nposts EXCEPT ![chId] = @ + 1]
  /\ ret' = [op |-> "none", val |-> "none"]
  /\ UNCHANGED <<config, sched, isRunning, cycles, state, disk, sysadminUserId,
                 dmChannelId, hadState, cycleNo, considered, durable, outbox, cl, nt, boot, tool>>

\* The process dies and is started again: everything in memory is rebuilt from
\* the configuration and the state file.
Crash ==
  /\ Constructed(disk)
  /\ ret' = [op |-> "restart", val |-> "none"]
  /\ UNCHANGED <<config, disk, nposts, durable, cl, nt, boot>>

\* The process dies inside writeFileSync, after the file was truncated.
CrashInSave(i) ==
  /\ cycles[i].pc = "enrich"
  /\ disk' = [kind |-> "torn"]
  /\ Constructed(disk')
  /\ ret' = [op |-> "restart", val |-> "none"]
  /\ UNCHANGED <<config, nposts, durable, cl, nt, boot>>

\* The monitor as the server runs it: start(), ticks, manual triggers, the
\* cycle's steps, new messages, crashes and restarts.
Next ==
  \/ Tick
  \/ RunNow
  \/ \E out \in {"noUsers", "noChannel", "ok"} : MonitorStart(out)
  \/ \E i \in DOMAIN cycles, out \in {"ok", "error", "notFound"} : GetChannelsDone(i, out)
  \/ \E i \in DOMAIN cycles, out \in {"ok", "error"} : GetPostsDone(i, out)
  \/ \E i \in DOMAIN cycles, out \in {"ok", "fail", "torn"} : EnrichDone(i, out)
  \/ \E i \in DOMAIN cycles, out \in {"ok", "error"} : NotifyDone(i, out)
  \/ \E chId \in ChannelIds : NewPost(chId)
  \/ Crash
  \/ \E i \in DOMAIN cycles : CrashInSave(i)

Spec == Init /\ [][Next]_vars

\* The scheduler under every interleaving of its operations with a callback
\* that is in flight (the cycle over channels without new messages).
NextSched ==
  \/ Tick
  \/ RunNow
  \/ SchedStart
  \/ ToolRunMonitoring
  \/ \E out \in StopOutcomes : SchedStop(out)
  \/ \E e \in Exprs, out \in StopOutcomes : UpdateSchedule(e, out)
  \/ \E i \in DOMAIN cycles, out \in {"ok", "error", "notFound"} : GetChannelsDone(i, out)
  \/ \E i \in DOMAIN cycles, out \in {"ok", "error"} : GetPostsDone(i, out)
  \/ \E i \in DOMAIN cycles : CallbackThrows(i)

SpecSched == InitSched /\ [][NextSched]_vars

\* The scheduler with its timer running: an armed trigger keeps firing. The
\* replies of the workspace API carry no fairness: no await of the cycle is
\* bounded by a timeout, so a call that never answers is never resumed.
SpecLive == InitSched /\ [][NextSched]_vars /\ WF_vars(Tick)

\* ------------------------------------------- the classifier on its own
\* Batches of up to MaxBatch posts over a pool of texts, topic lists, and,
\* with a backend configured, what the manual extraction reads from a reply.
ClassifyTexts == {TextDirect, TextLunch, TextButterfly, TextBoth, TextStandup}
ClassifyTopics == {<<TopicTableTennis>>, <<TopicTableTennis, TopicLunch>>,
                   <<TopicLunch, TopicTableTennis>>}
ClassifyBatches ==
  UNION {{[i \in 1..n |-> [id |-> i, user_id |-> "u1", message |-> f[i]]] :
            f \in [1..n -> ClassifyTexts]} : n \in 1..MaxBatch}

\* Replies: id 1 is in every batch, id 9 in none.  The last two give every
\* topic an array of its own, one with id 1 and the others with id 9.
ClassifyReplies(topics) ==
  {NoResp, [kind |-> "text", allPostIds |-> <<>>, topicIds |-> [t \in 1..Len(topics) |-> <<>>]]}
  \cup UNION {{[kind |-> "text", allPostIds |-> ids,
                topicIds |-> [t \in 1..Len(topics) |-> <<>>]],
               [kind |-> "text", allPostIds |-> ids,
                topicIds |-> [t \in 1..Len(topics) |-> IF t = 1 THEN ids ELSE <<>>]],
               [kind |-> "text", allPostIds |-> ids,
                topicIds |-> [t \in 1..Len(topics) |-> IF t = Len(topics) THEN ids ELSE <<>>]]} :
              ids \in {<<1>>, <<9>>, <<1, 9>>}}
  \cup (IF Len(topics) < 2 THEN {}
        ELSE {[kind |-> "text", allPostIds |-> <<own, 10 - own>>,
               topicIds |-> [t \in 1..Len(topics) |->
                               IF t = 1 THEN <<own>> ELSE <<10 - own>>]] : own \in {1, 9}})

InitClassify ==
  /\ config = [schedule |-> "*/5 * * * *"]
  /\ disk = [kind |-> "absent"]
  /\ InitProcess
  /\ boot = BootIdle
  /\ nt = NtIdle
  /\ \E b \in ClassifyBatches, ts \in ClassifyTopics, l \in {Null, "llmConfig"} :
       \E r \in (IF l = Null THEN {NoResp} ELSE ClassifyReplies(ts)),
          f \in {{}, {"u1"}}, so \in {"ok", "fail"} :
         cl = [phase |-> "input", posts |-> b, topics |-> ts, llm |-> l, resp |-> r,
               failing |-> f, saveOut |-> so,
               result |-> [relevantPosts |-> <<>>, relevantTopics |-> <<>>],
               out |-> [state |-> DefaultState, disk |-> [kind |-> "absent"], result |-> <<>>]]

\* One call of analyzePostsWithLLM on the drawn batch, and what analyzeChannel
\* makes of the batch as the unprocessed posts of channel c1 (enrichment with
\* or without failing lookups, classification, marking, save).
Classify ==
  /\ cl.phase = "input"
  /\ cl' = [cl EXCEPT !.phase = "done",
                      !.result = analyzePostsWithLLM(cl.posts, cl.topics, cl.llm, cl.resp),
                      !.out = classifyMarkSave(DefaultState, [kind |-> "absent"], "id1", "c1",
                                               cl.posts, cl.topics, cl.failing, cl.llm,
                                               cl.resp, cl.saveOut)]
  /\ UNCHANGED <<mainVars, nt, boot, tool>>

NextClassify == Classify

SpecClassify == InitClassify /\ [][NextClassify]_vars

\* --------------------------------------------- the notifier on its own
\* Results with 1..MaxMatches matching posts, with and without a cached
\* target, under every outcome of the profile lookups and of createPost.
NotifyResult(n, base) ==
  [channelId |-> "id1", channelName |-> "c1",
   posts |-> [i \in 1..n |-> [id |-> base + i,
                              user_id |-> IF i % 2 = 1 THEN "u1" ELSE "u2",
                              message |-> TextDirect]],
   relevantTopics |-> <<TopicTableTennis>>]

InitNotify ==
  /\ config = [schedule |-> "*/5 * * * *"]
  /\ disk = [kind |-> "absent"]
  /\ InitProcess
  /\ boot = BootIdle
  /\ cl = ClIdle
  /\ \E n \in 1..MaxMatches, base \in {0, 10}, dm \in {Null, "dm"}, user \in {Null, "admin"},
        profileOut \in {"ok", "error"}, failing \in SUBSET {"u1", "u2"},
        postOut \in {"ok", "error"} :
       nt = [phase |-> "input", result |-> NotifyResult(n, base), dm |-> dm, user |-> user,
             profileOut |-> profileOut, failing |-> failing, postOut |-> postOut,
             sent |-> <<>>]

\* One call of sendNotification on the drawn result.
Notify ==
  /\ nt.phase = "input"
  /\ nt' = [nt EXCEPT !.phase = "done",
                      !.sent = sendNotification(nt.dm, nt.user, nt.result, nt.profileOut,
                                                nt.failing, nt.postOut)]
  /\ UNCHANGED <<mainVars, cl, boot, tool>>

NextNotify == Notify

SpecNotify == InitNotify /\ [][NextNotify]_vars

\* ------------------------------------------ the startup lookups on their own
\* Longest user list and longest channel list of the workspace at startup.
MaxUsers == 3
MaxChannels == 2

\* Text of the ids that channel names are searched for, and of the role names.
IdText == [me |-> <<"m","e">>, u1 |-> <<"u","1">>, u2 |-> <<"u","2">>,
           u3 |-> <<"u","3">>]
SystemAdmin == <<"s","y","s","t","e","m","_","a","d","m","i","n">>
SystemUser == <<"s","y","s","t","e","m","_","u","s","e","r">>
RolesAdmin == <<"s","y","s","t","e","m","_","u","s","e","r"," ","s","y","s","t","e","m","_","a","d","m","i","n">>
RolesUser == SystemUser
RolesNone == <<>>

NameMeU1 == <<"m","e","_","_","u","1">>
NameMeU2 == <<"m","e","_","_","u","2">>
NameU1U2 == <<"u","1","_","_","u","2">>
NameTownSquare == <<"t","o","w","n","-","s","q","u","a","r","e">>
NameOffTopic == <<"o","f","f","-","t","o","p","i","c">>

\* Index of the first element of s that satisfies P, 0 when there is none
\* (Array.prototype.find).
FindIndex(s, P(_)) ==
  IF \E i \in 1..Len(s) : P(s[i])
  THEN CHOOSE i \in 1..Len(s) : P(s[i]) /\ \A j \in 1..(i - 1) : ~P(s[j])
  ELSE 0

\* Array.isArray(r) ? r : (r.users || []) and the same for channels: a reply is
\* an array, an object with the list, or an object without it.
ListOf(resp) == IF resp.kind \in {"array", "object"} THEN resp.list ELSE <<>>

\* A slip of findSysadminUser: the first user is taken whatever its role.
findSysadminUser_FirstUser(resp) ==
  IF resp.kind = "error" \/ ListOf(resp) = <<>> THEN [ok |-> FALSE, id |-> Null]
  ELSE [ok |-> TRUE, id |-> ListOf(resp)[1].id]

\* findSysadminUser: the first user whose roles include system_admin, else the
\* first non-bot user whose roles include system_user, else the first non-bot
\* user, else the first user; it throws when getUsers() does or no user is
\* listed.
findSysadminUser(resp) ==
  IF resp.kind = "error" \/ ListOf(resp) = <<>> THEN [ok |-> FALSE, id |-> Null]
  ELSE LET users == ListOf(resp)
           admin == FindIndex(users, LAMBDA u : u.roles # <<>> /\ includes(u.roles, SystemAdmin))
           regular == FindIndex(users, LAMBDA u : u.roles # <<>> /\ ~u.is_bot
                                                  /\ includes(u.roles, SystemUser))
           nonBot == FindIndex(users, LAMBDA u : ~u.is_bot)
           i == IF admin # 0 THEN admin ELSE IF regular # 0 THEN regular
                ELSE IF nonBot # 0 THEN nonBot ELSE 1
       IN [ok |-> TRUE, id |-> users[i].id]

\* createDmChannel for recipient uid: the first type-D channel whose name
\* includes the recipient's id and the caller's id, else a newly created direct
\* channel, else town-square, else the first open channel, else the first
\* channel; it throws when getMe() or getChannels() does, and when nothing is
\* found.
createDmChannel(uid, meResp, chResp, createOut) ==
  IF uid = Null \/ meResp.kind = "error" \/ chResp.kind = "error"
  THEN [ok |-> FALSE, id |-> Null]
  ELSE LET channels == ListOf(chResp)
           dm == FindIndex(channels, LAMBDA c : c.type = "D"
                                       /\ includes(c.name, IdText[uid])
                                       /\ includes(c.name, IdText[meResp.id]))
           town == FindIndex(channels, LAMBDA c : c.name = NameTownSquare)
           open == FindIndex(channels, LAMBDA c : c.type = "O")
       IN IF dm # 0 THEN [ok |-> TRUE, id |-> channels[dm].id]
          ELSE IF createOut = "ok" THEN [ok |-> TRUE, id |-> "newdm"]
          ELSE IF town # 0 THEN [ok |-> TRUE, id |-> channels[town].id]
          ELSE IF open # 0 THEN [ok |-> TRUE, id |-> channels[open].id]
          ELSE IF channels # <<>> THEN [ok |-> TRUE, id |-> channels[1].id]
          ELSE [ok |-> FALSE, id |-> Null]

\* TopicMonitor.start on a monitor [sysadminUserId, dmChannelId, sched]: the
\* two lookups, then scheduler.start(); a throw is caught and false returned,
\* with what was assigned before the throw kept.
topicMonitorStart(m, usersResp, meResp, chResp, createOut) ==
  LET u == findSysadminUser(usersResp)
      d == createDmChannel(u.id, meResp, chResp, createOut)
  IN IF ~u.ok THEN [m |-> m, ret |-> "false"]
     ELSE IF ~d.ok THEN [m |-> [m EXCEPT !.sysadminUserId = u.id], ret |-> "false"]
     ELSE [m |-> [sysadminUserId |-> u.id, dmChannelId |-> d.id, sched |-> start(m.sched).s],
           ret |-> start(m.sched).ret]

\* User lists: the k-th user has the k-th id; every role string and bot flag.
BootUserIds == <<"u1", "me", "u2", "u3">>
UserKinds == {[roles |-> r, is_bot |-> b] : r \in {RolesAdmin, RolesUser, RolesNone},
                                            b \in BOOLEAN}
BootUserLists ==
  UNION {{[i \in 1..n |-> [id |-> BootUserIds[i], roles |-> f[i].roles, is_bot |-> f[i].is_bot]] :
            f \in [1..n -> UserKinds]} : n \in 0..MaxUsers}

\* Channel lists: the k-th channel has the k-th id.
BootChannelIds == <<"ch1", "ch2", "ch3">>
ChannelKinds == {[type |-> "D", name |-> NameMeU1], [type |-> "D", name |-> NameMeU2],
                 [type |-> "D", name |-> NameU1U2], [type |-> "O", name |-> NameTownSquare],
                 [type |-> "O", name |-> NameOffTopic], [type |-> "P", name |-> NameOffTopic]}
BootChannelLists ==
  UNION {{[i \in 1..n |-> [id |-> BootChannelIds[i], type |-> f[i].type, name |-> f[i].name]] :
            f \in [1..n -> ChannelKinds]} : n \in 0..MaxChannels}

\* The direct channels of the workspace with user uid (the caller being me).
DirectWith(channels, uid) ==
  {channels[i].id : i \in {j \in 1..Len(channels) :
      /\ channels[j].type = "D"
      /\ channels[j].name = (IF uid = "me" THEN <<"m","e","_","_","m","e">> ELSE IdText["me"] \o <<"_","_">> \o IdText[uid])}}

UsersReplies(lists) ==
  {[kind |-> "error", list |-> <<>>], [kind |-> "noList", list |-> <<>>]}
  \cup {[kind |-> k, list |-> l] : k \in {"array", "object"}, l \in lists}

\* Every user list with a workspace of two channels, and every channel list
\* with the caller or another user as the only administrator.
InitStartup ==
  /\ config = [schedule |-> "*/5 * * * *"]
  /\ disk = [kind |-> "absent"]
  /\ InitProcess
  /\ cl = ClIdle
  /\ nt = NtIdle
  /\ \E meK \in {"ok", "error"}, createOut \in {"ok", "error"} :
       \/ \E ur \in UsersReplies(BootUserLists) :
            boot = [phase |-> "input", users |-> ur, me |-> [kind |-> meK, id |-> "me"],
                    channels |-> [kind |-> "array",
                                  list |-> <<[id |-> "ch1", type |-> "O", name |-> NameTownSquare]>>],
                    createOut |-> createOut]
       \/ \E admin \in {"me", "u1"}, ck \in {"array", "object", "noList", "error"},
             cs \in BootChannelLists :
            /\ ck \in {"noList", "error"} => cs = <<>>
            /\ boot = [phase |-> "input",
                       users |-> [kind |-> "array",
                                  list |-> <<[id |-> admin, roles |-> RolesAdmin, is_bot |-> FALSE]>>],
                       me |-> [kind |-> meK, id |-> "me"],
                       channels |-> [kind |-> ck, list |-> cs],
                       createOut |-> createOut]

\* TopicMonitor.start() in the drawn workspace.
BootStart ==
  /\ boot.phase = "input"
  /\ LET r == topicMonitorStart([sysadminUserId |-> sysadminUserId, dmChannelId |-> dmChannelId,
                                 sched |-> sched],
                                boot.users, boot.me, boot.channels, boot.createOut)
     IN /\ sysadminUserId' = r.m.sysadminUserId
        /\ dmChannelId' = r.m.dmChannelId
        /\ sched' = r.m.sched
        /\ ret' = [op |-> "monitorStart", val |-> r.ret]
  /\ boot' = [boot EXCEPT !.phase = "done"]
  /\ UNCHANGED <<config, isRunning, cycles, state, disk, nposts, hadState, cycleNo,
                 considered, durable, outbox, cl, nt, tool>>

NextStartup == BootStart

SpecStartup == InitStartup /\ [][NextStartup]_vars

\* ============================================================== properties
InFlight == Len(cycles)

\* Everything but `ret`: what an operation can change besides its own result.
effectVars == <<config, sched, isRunning, cycles, state, disk, sysadminUserId,
                dmChannelId, nposts, hadState, cycleNo, considered, durable, outbox>>

\* A callback invocation reached the point where its candidates are known.
GotCandidates(i) ==
  /\ i \in DOMAIN cycles
  /\ i \in DOMAIN cycles'
  /\ cycles[i].pc = "getPosts"
  /\ cycles'[i].pc = "enrich"

\* C1 (SpecSched): at most one invocation of the monitoring-cycle callback is
\* in flight at any time, under every interleaving of ticks, runNow(), stop(),
\* start() and updateSchedule(), also when these happen during a cycle.
C1_SingleFlight == InFlight <= 1

\* C1 witness: updateSchedule() restarted the scheduler while a cycle was in
\* flight, and the cycle is still the only one.
C1_Witness ==
  /\ InFlight = 1
  /\ ret.op = "updateSchedule"
  /\ ret.val = "true"
  /\ sched.task = "0 * * * *"

\* C2 (Spec): a runNow() while a cycle is in flight changes nothing: no fetch,
\* no classification, no notification, no marking, no save; the processed ids
\* and the file are as before.
C2_RunNowInFlightNoEffect ==
  [][(ret'.op = "runNow" /\ InFlight > 0) => UNCHANGED effectVars]_vars

\* C2 witness: runNow() was skipped while a cycle held candidates to classify.
C2_Witness ==
  /\ ret = [op |-> "runNow", val |-> "skipped"]
  /\ InFlight = 1
  /\ cycles[1].pc = "enrich"
  /\ cycles[1].cands # <<>>

\* C3 (SpecSched): a tick that fires while an invocation is in flight invokes
\* nothing and leaves nothing behind; an invocation starts only in the step of
\* a tick or runNow() that found no invocation in flight, one per such trigger.
C3_TickSkippedNotQueued ==
  [][/\ (ret'.op = "tick" /\ InFlight > 0) =>
          (ret'.val = "skipped" /\ UNCHANGED effectVars)
     /\ (Len(cycles') > Len(cycles)) =>
          /\ InFlight = 0
          /\ Len(cycles') = 1
          /\ ret'.op \in {"tick", "runNow"}
          /\ ret'.val = "invoked"]_vars

\* C3 witness: a tick was skipped while an invocation was in flight, waiting
\* for the reply to its fetch.
C3_Witness ==
  /\ ret = [op |-> "tick", val |-> "skipped"]
  /\ InFlight = 1
  /\ cycles[1].pc = "getPosts"

\* C4 (Spec): within one process lifetime, a message that was a candidate of
\* its channel once is never a candidate of that channel again, matched or
\* not, saved or not.
C4_CandidateOnce ==
  [][\A i \in DOMAIN cycles :
       GotCandidates(i) => SeqToSet(cycles'[i].cands) \cap considered = {}]_vars

\* C4 witness: a later cycle fetched both messages of channel c1 and kept only
\* the new one, the other having been a candidate of an earlier cycle.
C4_Witness ==
  /\ InFlight = 1
  /\ cycles[1].no = 2
  /\ cycles[1].pc = "enrich"
  /\ cycles[1].cands = <<PostId(1, 2)>>
  /\ PostId(1, 1) \in considered
  /\ disk.kind # "record"

\* C5 (Spec): with no state file before the load and the first-run policy
\* enabled, the first cycle requests firstRunLimit messages per channel and
\* every later cycle messageLimit.
C5_FirstRunLimit ==
  \A i \in DOMAIN cycles :
    cycles[i].pc = "getPosts" =>
      cycles[i].limit = IF ~hadState /\ processExistingOnFirstRun /\ cycles[i].no = 1
                        THEN firstRunLimit ELSE messageLimit

\* C6 (SpecSched): start() on a Stopped scheduler with an invalid expression
\* returns false and changes nothing: no trigger armed, task, flag and
\* stored expression as before.
C6_InvalidStartRejected ==
  [][(ret'.op = "start" /\ sched.task = Null /\ ~validate(sched.schedule)) =>
       (ret'.val = "false" /\ UNCHANGED effectVars)]_vars

\* C6 witness: start() returned false on a Stopped scheduler whose expression
\* is invalid, and nothing is armed.
C6_Witness ==
  /\ ret = [op |-> "start", val |-> "false"]
  /\ ~validate(sched.schedule)
  /\ sched.task = Null
  /\ sched.armed = {}

Occurrences(s, x) == Cardinality({i \in 1..Len(s) : s[i] = x})

\* C7 (Spec): in every reachable state, markProcessed(channelId, id) raises no
\* error, a second call with the same arguments gives the state of the first
\* call, for every channel, and the id occurs exactly once in the channel's
\* list.
C7_MarkIdempotent ==
  \A chId \in ChannelIds, id \in AllPostIds :
    LET once == markPostProcessed(state, chId, id)
        twice == markPostProcessed(once, chId, id)
    IN /\ ~Throws(state)
       /\ ~Throws(once)
       /\ twice = once
       /\ Occurrences(getProcessedPostIds(twice, chId), id) = 1

\* The static synonym dictionary of the dictionary variant of the analyzer.
topicDictionary(topic) ==
  IF toLowerCase(topic) = TopicTableTennis
  THEN {<<"p","i","n","g"," ","p","o","n","g">>, <<"p","a","d","d","l","e">>,
        <<"r","a","c","k","e","t">>, <<"b","a","l","l">>, <<"n","e","t">>,
        <<"t","a","b","l","e">>, <<"b","u","t","t","e","r","f","l","y">>,
        <<"s","t","i","g","a">>, <<"d","o","n","i","c">>, <<"y","a","s","a","k","a">>,
        <<"t","i","b","h","a","r">>, <<"j","o","o","l","a">>,
        <<"r","u","b","b","e","r","s">>, <<"b","l","a","d","e">>,
        <<"b","a","c","k","h","a","n","d">>, <<"f","o","r","e","h","a","n","d">>,
        <<"s","p","i","n">>, <<"s","e","r","v","e">>,
        <<"t","i","m","o"," ","b","o","l","l">>, <<"m","a"," ","l","o","n","g">>,
        <<"z","h","a","n","g"," ","j","i","k","e">>,
        <<"w","a","n","g"," ","l","i","q","i","n">>,
        <<"l","i","u"," ","s","h","i","w","e","n">>, <<"d","i","g","n","i","c","s">>,
        <<"t","e","n","e","r","g","y">>, <<"t","o","u","r","n","a","m","e","n","t">>,
        <<"c","h","a","m","p","i","o","n","s","h","i","p">>, <<"i","t","t","f">>}
  ELSE {}

\* The message contains the topic's label or one of its dictionary terms.
LabelOrTerm(message, topic) ==
  \/ includes(toLowerCase(message), toLowerCase(topic))
  \/ \E term \in topicDictionary(topic) : includes(toLowerCase(message), toLowerCase(term))

\* C8 (SpecClassify): under the fallback the monitor runs (no backend
\* configured), a message is relevant exactly when it contains the label of a
\* configured topic or a dictionary term of one; "just bought a new butterfly
\* blade" matches "table tennis", "let's grab lunch" does not.
C8_FallbackLabelOrTerm ==
  (cl.phase = "done" /\ cl.llm = MonitorLlmConfig) =>
    \A i \in 1..Len(cl.posts) :
      (cl.posts[i] \in SeqToSet(cl.result.relevantPosts))
        <=> \E t \in 1..Len(cl.topics) : LabelOrTerm(cl.posts[i].message, cl.topics[t])

\* C9 (SpecNotify): the alert for n matching posts lists the first min(n, 5)
\* of them in order, reports n in the header, and carries the suffix "and
\* n - 5 more" exactly when n > 5.
C9_AlertTruncation ==
  (nt.phase = "done" /\ nt.sent # <<>>) =>
    LET m == nt.sent[1].message
        posts == nt.result.posts
        n == Len(posts)
    IN /\ Len(m.lines) = (IF n < 5 THEN n ELSE 5)
       /\ \A i \in 1..Len(m.lines) : m.lines[i].id = posts[i].id
       /\ m.found = n
       /\ (m.more # 0) <=> (n > 5)
       /\ (n > 5) => (m.more = n - 5)

\* C9 witness: 7 matching posts gave an alert of 5 lines and "... and 2 more".
C9_Witness ==
  /\ nt.phase = "done"
  /\ Len(nt.result.posts) = 7
  /\ nt.sent # <<>>
  /\ Len(nt.sent[1].message.lines) = 5
  /\ nt.sent[1].message.more = 2

\* C10 (Spec): once a save has succeeded with a message in the file, the
\* message is never a candidate again, whatever write failures, crashes and
\* restarts follow.
C10_NoReevaluationAfterSave ==
  [][\A i \in DOMAIN cycles :
       GotCandidates(i) => SeqToSet(cycles'[i].cands) \cap durable = {}]_vars

\* C11 (SpecSched): whenever a callback invocation ends, by returning or by
\* throwing, the in-flight flag is false afterwards and the handler does not
\* pass the callback's exception on to its caller.
C11_FlagClearedOnEveryExit ==
  [][(Len(cycles') < Len(cycles)) =>
       (isRunning' = FALSE /\ ret'.val # "propagated" /\ cycles' = <<>>)]_vars

\* C11 witness: a callback threw, the exception was caught and the flag is
\* clear with the scheduler still armed.
C11_Witness ==
  /\ ret = [op |-> "callback", val |-> "caught"]
  /\ isRunning = FALSE
  /\ cycles = <<>>
  /\ sched.armed # {}

\* C12 (SpecLive): every cycle that starts eventually finishes: with the
\* scheduler armed, a set in-flight flag is eventually cleared (or the scheduler
\* is stopped), also when an external call never answers, so that ticks are not
\* skipped forever.
C12_CycleEventuallyFinishes ==
  (isRunning /\ sched.armed # {}) ~> (~isRunning \/ sched.armed = {})

\* C13 (Spec): the state file is written atomically: whatever happens during
\* saveState, a crash included, the file is a complete record (the previous
\* or the new one), never a partial one. A file that was a complete record
\* stays one.
C13_AtomicWrite ==
  [][disk.kind = "record" => disk'.kind = "record"]_vars

\* C14 (Spec): whatever the state file holds (nothing, an unparsable text, or
\* a parsable value that is no MonitorState), the loaded state has a processed
\* map that cycles can look up, mark and save: no access to it throws.
C14_LoadYieldsUsableMap == ~Throws(state)

\* The step in which cycle i classifies, marks and saves, with a save whose
\* write failed: the file is not the record of the new state.
SaveFailedStep(i) ==
  /\ cycles[i].pc = "enrich"
  /\ cycles' # cycles
  /\ ret'.op # "restart"
  /\ disk' # FileOf(state')

\* C15 (Spec): when the write inside saveState fails, the cycle goes on: every
\* candidate of the step is in the in-memory processed list of its channel,
\* and if the batch has matches the channel's result is produced (it is the
\* last result of the cycle, which is still in flight and will notify it
\* when a delivery target is cached).
C15_SaveFailureDoesNotAbort ==
  [][\A i \in DOMAIN cycles :
       SaveFailedStep(i) =>
         LET chName == ConfigChannels[cycles[i].ch]
             chId == ChannelIdOf(chName)
             posts == [k \in 1..Len(cycles[i].cands) |-> PostOf(cycles[i].cands[k])]
             rel == analyzePostsWithLLM(posts, ConfigTopics, MonitorLlmConfig, NoResp).relevantPosts
         IN /\ SeqToSet(cycles[i].cands) \subseteq SeqToSet(getProcessedPostIds(state', chId))
            /\ (rel # <<>> /\ dmChannelId # Null /\ sysadminUserId # Null) =>
                  /\ i \in DOMAIN cycles'
                  /\ cycles'[i].results # <<>>
                  /\ cycles'[i].results[Len(cycles'[i].results)].channelId = chId
                  /\ PostIdsOf(cycles'[i].results[Len(cycles'[i].results)].posts)
                       = PostIdsOf(rel)]_vars

\* C15 witness: an alert for channel c1 went out although no save of this
\* process ever reached the file, and the message is marked in memory.
C15_Witness ==
  /\ disk.kind = "absent"
  /\ \E a \in outbox : a.message.channelName = "c1"
  /\ ~Throws(state)
  /\ PostId(1, 2) \in SeqToSet(getProcessedPostIds(state, "id1"))

\* C16 (SpecClassify): when analyzeChannel has classified a non-empty batch,
\* every post of the batch is in the channel's processed list, matched or
\* not, under the fallback and under the backend policy, also when the backend
\* call raised an error and when the author lookups failed.
C16_EveryCandidateMarked ==
  cl.phase = "done" =>
    /\ SeqToSet(getProcessedPostIds(cl.out.state, "id1")) = SeqToSet(PostIdsOf(cl.posts))
    /\ Len(getProcessedPostIds(cl.out.state, "id1")) = Len(cl.posts)

\* C16 witness: a backend was configured, its call raised an error, the author
\* lookups failed, nothing matched under the fallback, and the whole batch of
\* two posts is marked.
C16_Witness ==
  /\ cl.phase = "done"
  /\ cl.llm # Null
  /\ cl.resp.kind = "error"
  /\ cl.failing = {"u1"}
  /\ Len(cl.posts) = 2
  /\ cl.out.result = <<>>
  /\ getProcessedPostIds(cl.out.state, "id1") = <<1, 2>>

\* The processed ids of every channel, in memory.
MarkedIds(st) == UNION {SeqToSet(st.processedPosts[c]) : c \in DOMAIN st.processedPosts}

\* C17 (Spec): a failed createPost leaves the in-memory processed lists and the
\* state file as they were; the posts of the failed alert are marked, marks
\* are never taken back while the process lives, and a marked post is never a
\* candidate again, so no later cycle of the process repeats the alert.
C17_DeliveryFailureKeepsMarks ==
  [][/\ (ret'.op = "createPost" /\ ret'.val = "error") =>
          /\ UNCHANGED <<state, disk>>
          /\ \A i \in DOMAIN cycles : cycles[i].pc = "notify" =>
                SeqToSet(PostIdsOf(cycles[i].results[cycles[i].n].posts)) \subseteq MarkedIds(state')
     /\ (ret'.op # "restart") => MarkedIds(state) \subseteq MarkedIds(state')
     /\ \A i \in DOMAIN cycles :
          GotCandidates(i) => SeqToSet(cycles'[i].cands) \cap MarkedIds(state) = {}]_vars

\* C17 witness: the alert for c1 failed to post; its message is marked, the
\* file holds it, nothing is in the outbox and the cycle is over.
C17_Witness ==
  /\ ret = [op |-> "createPost", val |-> "error"]
  /\ cycles = <<>>
  /\ outbox = {}
  /\ ~Throws(state)
  /\ PostId(1, 2) \in SeqToSet(getProcessedPostIds(state, "id1"))
  /\ PostId(1, 2) \in IdsOnFile(disk)

\* Cycle i ends in this step by the callback returning.
EndsNormally(i) ==
  /\ i \in DOMAIN cycles
  /\ Len(cycles') < Len(cycles)
  /\ ret'.op \notin {"restart", "callback"}

\* The result that the classify-mark-save step of cycle i adds, if any.
NewResultOf(i) ==
  IF cycles[i].pc # "enrich" THEN <<>>
  ELSE LET chName == ConfigChannels[cycles[i].ch]
           posts == [k \in 1..Len(cycles[i].cands) |-> PostOf(cycles[i].cands[k])]
       IN classifyMarkSave(state, disk, ChannelIdOf(chName), chName, posts, ConfigTopics, {},
                           MonitorLlmConfig, NoResp, "ok").result

\* C18 (Spec): in every cycle there is exactly one createPost per channel that
\* produced a result, made to the resolved delivery channel and for that
\* channel, and no other post: a cycle returns only after the createPost of
\* its last result or with no result at all; the results hold each channel at
\* most once and only with matches; every new post is the alert of the result
\* being notified.
C18_OnePostPerMatchingChannel ==
  [][/\ \A i \in DOMAIN cycles :
          EndsNormally(i) =>
            \/ cycles[i].pc = "notify" /\ cycles[i].n = Len(cycles[i].results)
            \/ cycles[i].pc # "notify" /\ cycles[i].results = <<>> /\ NewResultOf(i) = <<>>
     /\ \A i \in DOMAIN cycles' :
          LET rs == cycles'[i].results
          IN /\ \A j, k \in 1..Len(rs) : j < k => rs[j].channelId # rs[k].channelId
             /\ \A j \in 1..Len(rs) : rs[j].posts # <<>>
             /\ (cycles'[i].pc = "notify" /\ i \in DOMAIN cycles /\ cycles[i].pc # "notify")
                   => cycles'[i].n = 1
             /\ (cycles'[i].pc = "notify" /\ i \in DOMAIN cycles /\ cycles[i].pc = "notify")
                   => cycles'[i].n \in {cycles[i].n, cycles[i].n + 1}
     /\ (outbox' # outbox /\ ret'.op # "restart") =>
          \E i \in DOMAIN cycles :
            /\ cycles[i].pc = "notify"
            /\ dmChannelId # Null
            /\ ret' = [op |-> "createPost", val |-> "ok"]
            /\ \E a \in outbox' :
                 /\ outbox' = outbox \cup {a}
                 /\ a.to = dmChannelId
                 /\ a.message.channelName = cycles[i].results[cycles[i].n].channelName
                 /\ a.message.found = Len(cycles[i].results[cycles[i].n].posts)]_vars

\* Cycle i takes a step of its own (no restart, no rejected callback).
CycleStep(i) ==
  /\ i \in DOMAIN cycles
  /\ cycles' # cycles
  /\ Len(cycles') <= Len(cycles)
  /\ ret'.op \notin {"restart", "callback"}

\* C19 (Spec): whatever happens to one channel (name not found, fetch error,
\* unreadable processed list, failed save, failed delivery), the cycle goes on:
\* from a channel that is not the last it stays with the channel or moves to
\* the getChannels() of the next one, never to the end; and after the
\* createPost of a result that is not the last, failed or not, it notifies the
\* next result.
C19_ChannelFailureIsolated ==
  [][\A i \in DOMAIN cycles :
       CycleStep(i) =>
         /\ (cycles[i].pc \in {"getChannels", "getPosts", "enrich"}
               /\ cycles[i].ch < Len(ConfigChannels)) =>
              /\ i \in DOMAIN cycles'
              /\ cycles'[i].pc \in {"getChannels", "getPosts", "enrich"}
              /\ \/ cycles'[i].ch = cycles[i].ch /\ cycles'[i].pc # "getChannels"
                 \/ cycles'[i].ch = cycles[i].ch + 1 /\ cycles'[i].pc = "getChannels"
         /\ (cycles[i].pc = "notify" /\ cycles[i].n < Len(cycles[i].results)) =>
              /\ i \in DOMAIN cycles'
              /\ cycles'[i].pc = "notify"
              /\ cycles'[i].n = cycles[i].n + 1
              /\ cycles'[i].results = cycles[i].results]_vars

\* C19 witness: in the only cycle of a process whose saves never reached the
\* file, the matching message of c1 was marked but its alert is not in the
\* outbox (its createPost failed), and the alert of c2 was posted after it.
C19_Witness ==
  /\ cycleNo = 1
  /\ cycles = <<>>
  /\ disk.kind = "absent"
  /\ ~Throws(state)
  /\ PostId(1, 2) \in SeqToSet(getProcessedPostIds(state, "id1"))
  /\ \E a \in outbox : a.message.channelName = "c2"
  /\ \A a \in outbox : a.message.channelName # "c1"

\* C20 (SpecSched): updateSchedule with an expression that is not a valid cron
\* expression returns false and changes nothing: the stored expression, the
\* task and the armed triggers, and the in-flight flag and cycle are as before.
C20_InvalidUpdateChangesNothing ==
  [][/\ \A e \in Exprs, out \in StopOutcomes :
          ~validate(e) => updateSchedule(sched, e, out) = [s |-> sched, ret |-> "false"]
     /\ (ret'.op = "updateSchedule" /\ ~validate(ret'.arg)) =>
          /\ ret'.val = "false"
          /\ UNCHANGED <<config, sched, isRunning, cycles, state, disk>>]_vars

\* C20 witness: updateSchedule has just returned false on a running scheduler
\* with a valid stored expression, an armed trigger and a cycle in flight.
C20_Witness ==
  /\ ret = [op |-> "updateSchedule", val |-> "false", arg |-> "every now and then"]
  /\ sched.task # Null
  /\ validate(sched.schedule)
  /\ sched.armed = {sched.task}
  /\ isRunning
  /\ cycles # <<>>

\* C21 (SpecSched): after updateSchedule with a valid expression, a scheduler
\* that was Running is Running with exactly one trigger armed and that trigger
\* bound to the new expression, whatever task.stop() does; a scheduler that was
\* Stopped has the new expression stored and is still Stopped.
C21_ValidUpdateRebindsTrigger ==
  [][(ret'.op = "updateSchedule" /\ validate(ret'.arg)) =>
       /\ sched'.schedule = ret'.arg
       /\ sched.task # Null =>
            /\ sched'.task = ret'.arg
            /\ sched'.armed = {ret'.arg}
       /\ sched.task = Null =>
            /\ sched'.task = Null
            /\ sched'.armed = sched.armed]_vars

\* C22 (SpecClassify): the analysis is the keyword fallback's when there is no
\* backend configuration or the backend call raised an error, and the manual
\* extraction's when a configured backend replied; with the fallback the
\* channel still gets its result (the fallback's matches, or none) and every
\* post of the batch is marked, as in a cycle without degradation.
C22_FallbackExactlyOnNoConfigOrError ==
  cl.phase = "done" =>
    LET fb == fallbackAnalysis(cl.posts, cl.topics)
        degraded == cl.llm = Null \/ cl.resp.kind = "error"
    IN /\ degraded =>
            /\ cl.result = fb
            /\ (fb.relevantPosts = <<>>) = (cl.out.result = <<>>)
            /\ \A k \in 1..Len(cl.out.result) :
                 /\ PostIdsOf(cl.out.result[k].posts) = PostIdsOf(fb.relevantPosts)
                 /\ cl.out.result[k].relevantTopics = fb.relevantTopics
            /\ getProcessedPostIds(cl.out.state, "id1") = PostIdsOf(cl.posts)
       /\ (~degraded /\ cl.posts # <<>>) =>
            cl.result = primaryAnalysis(cl.posts, cl.topics, cl.resp)

\* C22 witness: the backend call of a configured backend raised an error and
\* the channel still has a result, made of the keyword matches.
C22_Witness ==
  /\ cl.phase = "done"
  /\ cl.llm # Null
  /\ cl.resp.kind = "error"
  /\ cl.result.relevantPosts # <<>>
  /\ cl.out.result # <<>>

\* C23 (SpecClassify): under the primary policy, a reply that holds message
\* ids but no id array for any configured topic makes exactly the candidates
\* whose id is in the reply matching, with all configured topics as matched
\* topics; a reply that holds no id of a candidate gives no matching message
\* and no result for the channel.
C23_TieBreakAllTopics ==
  (cl.phase = "done" /\ cl.llm # Null /\ cl.resp.kind = "text") =>
    LET inReply == SelectSeq(cl.posts, LAMBDA p : p.id \in SeqToSet(cl.resp.allPostIds))
        noTopic == \A t \in 1..Len(cl.topics) : cl.resp.topicIds[t] = <<>>
    IN /\ (noTopic /\ inReply # <<>>) =>
            /\ cl.result.relevantPosts = inReply
            /\ cl.result.relevantTopics = cl.topics
            /\ Len(cl.out.result) = 1
            /\ PostIdsOf(cl.out.result[1].posts) = PostIdsOf(inReply)
            /\ cl.out.result[1].relevantTopics = cl.topics
       /\ inReply = <<>> =>
            /\ cl.result.relevantPosts = <<>>
            /\ cl.out.result = <<>>

\* C23 witness: a reply names message 1 of a two-message batch and an id that
\* is not in the batch, with no topic array, for two configured topics.
C23_Witness ==
  /\ cl.phase = "done"
  /\ cl.llm # Null
  /\ cl.resp.kind = "text"
  /\ cl.resp.allPostIds = <<1, 9>>
  /\ \A t \in 1..Len(cl.topics) : cl.resp.topicIds[t] = <<>>
  /\ Len(cl.posts) = 2
  /\ Len(cl.topics) = 2
  /\ PostIdsOf(cl.result.relevantPosts) = <<1>>
  /\ cl.result.relevantTopics = cl.topics

\* C24 (SpecStartup): after start(), the recipient is a user with the
\* administrative role when the list has one; else a non-bot user when it has
\* one; else the first user of the list. With an empty list or a failed
\* listing call start() returns false, no recipient is cached, and the
\* scheduler has no task and no armed trigger.
C24_RecipientPreference ==
  boot.phase = "done" =>
    LET users == ListOf(boot.users)
        idsOf(S) == {users[i].id : i \in S}
        admins == {i \in 1..Len(users) : users[i].roles = RolesAdmin}
        nonBots == {i \in 1..Len(users) : ~users[i].is_bot}
    IN IF boot.users.kind = "error" \/ users = <<>>
       THEN /\ ret = [op |-> "monitorStart", val |-> "false"]
            /\ sysadminUserId = Null
            /\ sched.task = Null
            /\ sched.armed = {}
       ELSE /\ admins # {} => sysadminUserId \in idsOf(admins)
            /\ (admins = {} /\ nonBots # {}) => sysadminUserId \in idsOf(nonBots)
            /\ (admins = {} /\ nonBots = {}) => sysadminUserId = users[1].id

\* C24 witness: a bot is listed first, a regular user second and an
\* administrator third; the administrator is the recipient and start() succeeded.
C24_Witness ==
  /\ boot.phase = "done"
  /\ Len(ListOf(boot.users)) = 3
  /\ ListOf(boot.users)[1].is_bot
  /\ ListOf(boot.users)[2].roles = RolesUser
  /\ ~ListOf(boot.users)[2].is_bot
  /\ ListOf(boot.users)[3].roles = RolesAdmin
  /\ sysadminUserId = ListOf(boot.users)[3].id
  /\ ret = [op |-> "monitorStart", val |-> "true"]
  /\ sched.armed # {}

\* C25 (SpecStartup): once a recipient is found, the delivery channel is an
\* existing direct channel with the recipient when the workspace lists one,
\* else the newly created direct channel, else the channel named town-square,
\* else a public channel, else any listed channel; start() fails, leaving the
\* scheduler without a trigger, only when no direct channel could be made and
\* no channel is listed.
C25_DeliveryChannelFallback ==
  (boot.phase = "done" /\ findSysadminUser(boot.users).ok) =>
    LET channels == ListOf(boot.channels)
        ids(P(_)) == {channels[i].id : i \in {j \in 1..Len(channels) : P(channels[j])}}
        direct == DirectWith(channels, sysadminUserId)
        created == boot.me.kind = "ok" /\ boot.channels.kind # "error" /\ boot.createOut = "ok"
        town == ids(LAMBDA c : c.name = NameTownSquare)
        public == ids(LAMBDA c : c.type = "O")
        wanted == IF direct # {} THEN direct
                  ELSE IF created THEN {"newdm"}
                  ELSE IF town # {} THEN town
                  ELSE IF public # {} THEN public
                  ELSE ids(LAMBDA c : TRUE)
    IN IF wanted = {}
       THEN /\ ret.val = "false"
            /\ dmChannelId = Null
            /\ sched.armed = {}
       ELSE /\ ret.val = "true"
            /\ dmChannelId \in wanted
            /\ sched.armed # {}

\* C26 (Spec): start() on a monitor that is already started (recipient and
\* delivery channel cached, scheduler Running) returns true and leaves the
\* scheduler Running with exactly one armed trigger and the cached target as
\* it was.
C26_StartIdempotent ==
  [][(/\ ret'.op = "monitorStart"
      /\ sched.task # Null
      /\ sysadminUserId # Null
      /\ dmChannelId # Null) =>
       /\ ret'.val = "true"
       /\ sched' = sched
       /\ Cardinality(sched'.armed) = 1
       /\ sysadminUserId' = sysadminUserId
       /\ dmChannelId' = dmChannelId]_vars

\* C27 (SpecSched): a response of the run-monitoring tool with success: true
\* is given only for a call whose runNow() invoked the callback and whose
\* callback returned; a call that was skipped because a cycle was in flight,
\* or whose callback threw, gets no success response.
C27_SuccessOnlyForCompletedCycle ==
  (tool.phase = "responded" /\ tool.resp.success) =>
    (tool.ran = "invoked" /\ tool.ended = "returned")

\* C28 (SpecClassify): under both policies the matching messages of an
\* analysis, and of the result made from it, are messages of the batch, each
\* at most once and in batch order, also when the reply names ids that are
\* not in the batch.
C28_MatchesAreCandidates ==
  cl.phase = "done" =>
    /\ cl.result.relevantPosts =
         SelectSeq(cl.posts, LAMBDA p : p \in SeqToSet(cl.result.relevantPosts))
    /\ \A k \in 1..Len(cl.out.result) :
         LET ids == PostIdsOf(cl.out.result[k].posts)
         IN /\ ids = SelectSeq(PostIdsOf(cl.posts), LAMBDA id : id \in SeqToSet(ids))
            /\ SeqToSet(ids) \subseteq SeqToSet(getProcessedPostIds(cl.out.state, "id1"))

\* C28 witness: the reply puts message 1 and an id that is in no batch under
\* the first topic; message 1 alone is matching.
C28_Witness ==
  /\ cl.phase = "done"
  /\ cl.llm # Null
  /\ cl.resp.kind = "text"
  /\ cl.resp.topicIds[1] = <<1, 9>>
  /\ Len(cl.posts) = 2
  /\ PostIdsOf(cl.result.relevantPosts) = <<1>>
  /\ Len(cl.out.result) = 1
  /\ PostIdsOf(cl.out.result[1].posts) = <<1>>

\* C29 (SpecSched): a stop() that returns true leaves the scheduler Stopped
\* with no trigger armed; while it is Stopped no tick happens, and it leaves
\* that state only by a start() that returns true; stop() never changes the
\* in-flight flag or the cycle in flight; stop() on a Stopped scheduler returns
\* false and changes nothing.
C29_StopSemantics ==
  [][/\ (ret'.op = "stop" /\ ret'.val = "true") =>
          /\ sched.task # Null
          /\ sched'.task = Null
          /\ sched'.armed = {}
     /\ ret'.op = "stop" => UNCHANGED <<isRunning, cycles, cycleNo, tool>>
     /\ (ret'.op = "stop" /\ sched.task = Null) =>
          /\ ret'.val = "false"
          /\ UNCHANGED effectVars
     /\ sched.task = Null =>
          /\ sched.armed = {}
          /\ ret'.op # "tick"
          /\ sched'.task # Null => ret' = [op |-> "start", val |-> "true"]]_vars

\* C29 witness: stop() has returned true while a cycle is in flight; the cycle
\* and the flag are still there and no trigger is armed.
C29_Witness ==
  /\ ret = [op |-> "stop", val |-> "true"]
  /\ sched.task = Null
  /\ sched.armed = {}
  /\ isRunning
  /\ cycles # <<>>

\* C30 (Spec): a cycle is in its notification loop only after analyzeChannel
\* has returned for every configured channel; every message listed in an
\* alert that is posted was marked processed before the step that posts it;
\* and a result joins the cycle's results only in the step that marks its
\* messages and calls saveState (the file is then the saved record, or
\* untouched or torn when the write failed).
C30_MarkAndSaveBeforeAlert ==
  [][/\ \A i \in DOMAIN cycles' :
          cycles'[i].pc = "notify" => cycles'[i].ch = Len(ConfigChannels)
     /\ (outbox' # outbox /\ ret'.op # "restart") =>
          /\ \E i \in DOMAIN cycles :
               cycles[i].pc = "notify" /\ cycles[i].ch = Len(ConfigChannels)
          /\ \A a \in outbox' \ outbox :
               \A k \in 1..Len(a.message.lines) : a.message.lines[k].id \in MarkedIds(state)
     /\ \A i \in DOMAIN cycles \cap DOMAIN cycles' :
          Len(cycles'[i].results) > Len(cycles[i].results) =>
            LET r == cycles'[i].results[Len(cycles'[i].results)]
            IN /\ cycles[i].pc = "enrich"
               /\ SeqToSet(PostIdsOf(r.posts)) \subseteq MarkedIds(state')
               /\ SeqToSet(PostIdsOf(r.posts)) \cap MarkedIds(state) = {}
               /\ disk' \in {FileOf(state'), disk, [kind |-> "torn"]}]_vars

\* C30 witness: the alert for c1 has just been posted in the first cycle of a
\* process whose save failed; its message is marked in memory, and the message
\* of c2 has been a candidate of the cycle already.
C30_Witness ==
  /\ ret = [op |-> "createPost", val |-> "ok"]
  /\ cycleNo = 1
  /\ disk.kind = "absent"
  /\ \E a \in outbox : a.message.channelName = "c1"
  /\ ~Throws(state)
  /\ PostId(1, 2) \in SeqToSet(getProcessedPostIds(state, "id1"))
  /\ PostId(2, 1) \in considered

\* C31 (SpecClassify): under the fallback policy the matched topics are
\* exactly the configured topics whose label occurs, case-insensitively, in at
\* least one message of the batch, also for a topic that occurs only in
\* messages that contain an earlier-listed topic as well.
C31_FallbackReportsEveryTopic ==
  (cl.phase = "done" /\ (cl.llm = Null \/ cl.resp.kind = "error")) =>
    SeqToSet(cl.result.relevantTopics) =
      {cl.topics[t] : t \in {u \in 1..Len(cl.topics) :
          \E i \in 1..Len(cl.posts) :
            includes(toLowerCase(cl.posts[i].message), toLowerCase(cl.topics[u]))}}

\* C32 (Spec): a cycle that has marked matching messages (it holds a result
\* for a channel) returns only from the createPost of an alert, which takes a
\* cached recipient and delivery channel: a cycle of a monitor whose start()
\* resolved no target, or was never called, does not end with matching
\* messages marked and no alert attempted.
C32_NoMatchConsumedWithoutAlert ==
  [][\A i \in DOMAIN cycles :
       (EndsNormally(i) /\ (cycles[i].results # <<>> \/ NewResultOf(i) # <<>>)) =>
         /\ cycles[i].pc = "notify"
         /\ sysadminUserId # Null
         /\ dmChannelId # Null]_vars

\* The processed ids of channel chId in the persisted record (none when there
\* is no record).
FileIds(d, chId) ==
  IF d.kind = "record" /\ chId \in DOMAIN d.processedPosts
  THEN SeqToSet(d.processedPosts[chId]) ELSE {}

\* C33 (Spec): for every channel the processed ids of the persisted record are
\* among the in-memory ones; a step that writes the record leaves the two
\* equal; and no step takes an id out of the in-memory lists (while the
\* process lives) or out of the persisted record.
C33_FileWithinMemoryAndMonotone ==
  [][\A chId \in ChannelIds :
       /\ FileIds(disk', chId) \subseteq SeqToSet(getProcessedPostIds(state', chId))
       /\ (disk' # disk /\ disk'.kind = "record") =>
            FileIds(disk', chId) = SeqToSet(getProcessedPostIds(state', chId))
       /\ ret'.op # "restart" =>
            SeqToSet(getProcessedPostIds(state, chId))
              \subseteq SeqToSet(getProcessedPostIds(state', chId))
       /\ FileIds(disk, chId) \subseteq FileIds(disk', chId)]_vars

\* The ids of the messages listed in the alerts posted so far.
AlertedIds(box) ==
  UNION {{a.message.lines[k].id : k \in 1..Len(a.message.lines)} : a \in box}

\* C34 (Spec): while the process lives, a createPost that succeeds carries no
\* message that an alert posted earlier already listed, and the messages of
\* one alert are distinct.
C34_NoMessageAlertedTwice ==
  [][(ret' = [op |-> "createPost", val |-> "ok"]) =>
       \A i \in DOMAIN cycles :
         cycles[i].pc = "notify" =>
           LET ids == PostIdsOf(cycles[i].results[cycles[i].n].posts)
           IN /\ SeqToSet(ids) \cap AlertedIds(outbox) = {}
              /\ SeqToSet(ids) \subseteq AlertedIds(outbox')
              /\ \A j, k \in 1..Len(ids) : j # k => ids[j] # ids[k]]_vars

\* C34 witness: the second cycle of the process fetched channel c1, whose
\* matching message is in the alert of the first cycle, and holds a result for
\* c2 only.
C34_Witness ==
  /\ cycleNo = 2
  /\ Len(cycles) = 1
  /\ cycles[1].pc = "notify"
  /\ Len(cycles[1].results) = 1
  /\ cycles[1].results[1].channelName = "c2"
  /\ nposts["id1"] = 2
  /\ PostId(1, 2) \in AlertedIds(outbox)

\* The topics that the primary policy ties to post p: those whose array in
\* the reply holds p's id, or every topic when the reply has no array with
\* ids and p's id is quoted somewhere in it.
TopicsOfPost(p, topics, resp) ==
  LET T == 1..Len(topics)
      direct == {t \in T : resp.topicIds[t] # <<>>}
  IN {topics[t] : t \in {u \in T :
        IF direct # {} THEN p.id \in SeqToSet(resp.topicIds[u])
        ELSE p.id \in SeqToSet(resp.allPostIds)}}

\* C35 (SpecClassify): when the backend replied, every matched topic of the
\* channel's result is tied by the reply to at least one of the result's
\* matching messages.
C35_MatchedTopicHasMessage ==
  (cl.phase = "done" /\ cl.llm # Null /\ cl.resp.kind = "text") =>
    \A r \in 1..Len(cl.out.result) :
      \A t \in SeqToSet(cl.out.result[r].relevantTopics) :
        \E k \in 1..Len(cl.out.result[r].posts) :
          t \in TopicsOfPost(cl.out.result[r].posts[k], cl.topics, cl.resp)

====
